---- MODULE Spec2Model ----
(***************************************************************************)
(* Model of the per-connection request handler of src/main.py              *)
(* (handle_client, generate_headers, log_request).                         *)
(*                                                                         *)
(* Text.  A Python str / bytes value is a sequence of lexemes.  Every      *)
(* character the code looks at by itself is a lexeme of its own: each      *)
(* whitespace character of str.isspace(), "/", ".", ":" and each decimal   *)
(* digit; any other lexeme is a maximal run of characters holding none of  *)
(* those (a word).  A character outside ASCII is written by its escape     *)
(* ("\\xa0" is U+00A0) and stands on the wire for its UTF-8 encoding; the   *)
(* lexeme InvalidByte is a byte that is not valid UTF-8 (0xFF).            *)
(*                                                                         *)
(* Time.  A timestamp is a whole number of ticks, TicksPerSec ticks to the *)
(* second, so that a file's modification time can have a sub-second part.  *)
(* An HTTP-date text ("Thu, 01 Jan 1970 00:00:01 GMT") is modelled by the   *)
(* decimal digits of its whole seconds: formatdate drops the sub-second    *)
(* part, parsedate_to_datetime reads the seconds back.  Text written next  *)
(* to the digits with no whitespace between is text glued to the date.     *)
(*                                                                         *)
(* Files.  The content of a file is bytes; a lexeme of a content is a run  *)
(* of bytes written as the characters they encode.                         *)
(***************************************************************************)
EXTENDS Integers, Sequences, FiniteSets, TLC

\* ------------------------------------------------------------------ bounds
MaxSlashes == 2     \* leading "/" of a request target: 0..MaxSlashes
MaxSec == 1         \* If-Modified-Since dates: seconds 0..MaxSec
MaxSize == 1        \* file sizes in bytes: 0..MaxSize
MaxTicks == 3       \* file modification times: 0..MaxTicks ticks
MaxJunk == 2        \* buffers made only of invalid bytes: 1..MaxJunk bytes
TicksPerSec == 2    \* resolution of a file's modification time
MaxConns == 2       \* connections the accept loop hands to threads: 0..MaxConns
MaxGap == 1         \* ticks between two writes of the log file: 0..MaxGap

\* --------------------------------------------------------- configuration
LOG_FILE == <<"log", ".", "txt">>
DEFAULT_PAGE == <<"index", ".", "html">>

MEDIA_TYPES ==
    [ext \in { <<".", "html">>, <<".", "txt">>, <<".", "jpg">>,
               <<".", "jpeg">>, <<".", "png">>, <<".", "gif">> } |->
        CASE ext = <<".", "html">> -> <<"text/html">>
          [] ext = <<".", "txt">>  -> <<"text/plain">>
          [] ext = <<".", "jpg">>  -> <<"image/jpeg">>
          [] ext = <<".", "jpeg">> -> <<"image/jpeg">>
          [] ext = <<".", "png">>  -> <<"image/png">>
          [] ext = <<".", "gif">>  -> <<"image/gif">>]

ERROR ==
    [code \in {200, 304, 400, 403, 404, 415, 500} |->
        CASE code = 200 -> "200 OK"
          [] code = 304 -> "304 Not Modified"
          [] code = 400 -> "400 Bad Request"
          [] code = 403 -> "403 Forbidden"
          [] code = 404 -> "404 File Not Found"
          [] code = 415 -> "415 Unsupported Media Type"
          [] code = 500 -> "500 Internal Server Error"]

\* ------------------------------------------------------------ text helpers
InvalidByte == "\\xff"

\* The characters c with c.isspace(): what str.split() and str.strip() take
\* for whitespace.
Whitespace ==
    {" ", "\t", "\n", "\r", "\\x0b", "\\x0c", "\\x1c", "\\x1d", "\\x1e", "\\x1f",
     "\\x85", "\\xa0", "\\u1680", "\\u2000", "\\u2001", "\\u2002", "\\u2003",
     "\\u2004", "\\u2005", "\\u2006", "\\u2007", "\\u2008", "\\u2009", "\\u200a",
     "\\u2028", "\\u2029", "\\u202f", "\\u205f", "\\u3000"}

\* The line boundaries of str.splitlines(); "\r" followed by "\n" is one.
LineBreaks ==
    {"\n", "\r", "\\x0b", "\\x0c", "\\x1c", "\\x1d", "\\x1e", "\\x85", "\\u2028", "\\u2029"}

Digits == <<"0", "1", "2", "3", "4", "5", "6", "7", "8", "9">>
DigitSet == { Digits[k] : k \in 1..10 }

\* A lexeme that is a run of other characters.
IsWord(l) == l \notin Whitespace \cup DigitSet \cup {"/", ".", ":", InvalidByte}

\* Characters that have become neighbours form one run.
RECURSIVE JoinWords(_)
JoinWords(s) ==
    IF Len(s) < 2 THEN s
    ELSE IF IsWord(s[1]) /\ IsWord(s[2])
         THEN JoinWords(<<s[1] \o s[2]>> \o SubSeq(s, 3, Len(s)))
         ELSE <<s[1]>> \o JoinWords(Tail(s))

\* bytes.decode('utf-8', errors='ignore'): invalid bytes are dropped, and
\* the characters on either side of a dropped byte are neighbours.
Decode(bytes) == JoinWords(SelectSeq(bytes, LAMBDA b : b # InvalidByte))

\* str.splitlines(): breaks at every line boundary, "\r\n" being one break;
\* no empty last line after a final break; the empty text has no line.
RECURSIVE LinesFrom(_, _, _)
LinesFrom(s, i, cur) ==
    IF i > Len(s) THEN (IF cur = <<>> THEN <<>> ELSE <<cur>>)
    ELSE IF s[i] = "\r" /\ i < Len(s) /\ s[i + 1] = "\n"
         THEN <<cur>> \o LinesFrom(s, i + 2, <<>>)
    ELSE IF s[i] \in LineBreaks
         THEN <<cur>> \o LinesFrom(s, i + 1, <<>>)
    ELSE LinesFrom(s, i + 1, Append(cur, s[i]))

SplitLines(s) == LinesFrom(s, 1, <<>>)

\* str.split(): the maximal runs of characters that are not whitespace, in
\* order.
RECURSIVE SplitFrom(_, _, _)
SplitFrom(s, i, cur) ==
    IF i > Len(s) THEN (IF cur = <<>> THEN <<>> ELSE <<cur>>)
    ELSE IF s[i] \in Whitespace
         THEN (IF cur = <<>> THEN <<>> ELSE <<cur>>) \o SplitFrom(s, i + 1, <<>>)
         ELSE SplitFrom(s, i + 1, Append(cur, s[i]))

Split(s) == SplitFrom(s, 1, <<>>)

\* str.lstrip("/"): every leading "/" is removed.
RECURSIVE LStripSlash(_)
StripOneSlash(s) == IF s # <<>> /\ s[1] = "/" THEN Tail(s) ELSE s
LStripSlash(s) == IF s # <<>> /\ s[1] = "/" THEN LStripSlash(Tail(s)) ELSE s

\* str.strip(): leading and trailing whitespace characters removed.
RECURSIVE Strip(_)
Strip(s) ==
    IF s = <<>> THEN s
    ELSE IF s[1] \in Whitespace THEN Strip(Tail(s))
    ELSE IF s[Len(s)] \in Whitespace THEN Strip(SubSeq(s, 1, Len(s) - 1))
    ELSE s

\* str.startswith(prefix), the prefix ending where a lexeme ends.
StartsWith(s, prefix) == Len(s) >= Len(prefix) /\ SubSeq(s, 1, Len(prefix)) = prefix

\* header.split(":", 1)[1]: the text after the first ":".
RECURSIVE AfterColon(_)
AfterColon(s) == IF s[1] = ":" THEN Tail(s) ELSE AfterColon(Tail(s))

\* Index of the last occurrence of lexeme c in s at or before i, 0 if none.
RECURSIVE LastIndex(_, _, _)
LastIndex(s, c, i) ==
    IF i = 0 THEN 0
    ELSE IF s[i] = c THEN i
    ELSE LastIndex(s, c, i - 1)

\* First index >= i of s that does not hold a ".", Len(s) + 1 if none.
RECURSIVE SkipDots(_, _)
SkipDots(s, i) ==
    IF i > Len(s) THEN i
    ELSE IF s[i] = "." THEN SkipDots(s, i + 1)
    ELSE i

\* The extension as the substring from the last ".", whatever precedes it.
LastDotExt(p) ==
    LET dot == LastIndex(p, ".", Len(p))
    IN IF dot = 0 THEN <<>> ELSE SubSeq(p, dot, Len(p))

\* os.path.splitext(p)[1]: the text from the last "." of the last path
\* segment, empty when that segment has no "." or only leading ones.
SplitExt(p) ==
    LET sep == LastIndex(p, "/", Len(p))
        dot == LastIndex(p, ".", Len(p))
    IN IF dot > sep /\ SkipDots(p, sep + 1) < dot
       THEN SubSeq(p, dot, Len(p))
       ELSE <<>>

\* Decimal digits of a natural number, as f"{n}" writes them.
RECURSIVE ToDigits(_)
ToDigits(n) ==
    IF n < 10 THEN <<Digits[n + 1]>>
    ELSE ToDigits(n \div 10) \o <<Digits[(n % 10) + 1]>>

DigitValue(d) == CHOOSE v \in 0..9 : Digits[v + 1] = d

RECURSIVE FromDigits(_)
FromDigits(s) ==
    IF s = <<>> THEN 0
    ELSE 10 * FromDigits(SubSeq(s, 1, Len(s) - 1)) + DigitValue(s[Len(s)])

IsDigits(s) == s # <<>> /\ \A i \in 1..Len(s) : s[i] \in DigitSet

\* The digits a text begins with.
RECURSIVE LeadingDigits(_)
LeadingDigits(s) ==
    IF s # <<>> /\ s[1] \in DigitSet THEN <<s[1]>> \o LeadingDigits(Tail(s)) ELSE <<>>

\* email.utils.formatdate(timestamp, usegmt=True): whole seconds only.
FormatDate(ticks) == ToDigits(ticks \div TicksPerSec)

\* The text from its first digit on, empty when it has none.
RECURSIVE FromFirstDigit(_)
FromFirstDigit(s) ==
    IF s = <<>> \/ s[1] \in DigitSet THEN s ELSE FromFirstDigit(Tail(s))

\* The date of a text is looked for in its first whitespace-separated
\* token: text glued in front of the date is part of the day name, which
\* the parser drops unread, and later tokens are not looked at.
DateToken(text) == IF Split(text) = <<>> THEN <<>> ELSE FromFirstDigit(Split(text)[1])

\* parsedate_to_datetime(text) raises: the first token holds no date.
ParseFails(text) == DateToken(text) = <<>>

\* Text glued behind the date is part of the zone name, which is then
\* none the parser knows.
ZoneKnown(text) == LeadingDigits(DateToken(text)) = DateToken(text)

\* parsedate_to_datetime(text).timestamp(), in ticks: the date is in GMT,
\* as formatdate writes it; with an unknown zone name the datetime is naive
\* and timestamp() reads it as local time of the server, which is zone
\* hours east of GMT.
ParseDate(text, zone) ==
    (FromDigits(LeadingDigits(DateToken(text)))
       - (IF ZoneKnown(text) THEN 0 ELSE zone * 3600)) * TicksPerSec

\* Local zones of the server, in hours east of GMT.
Zones == {-5, 0, 8}


\* --------------------------------------------------------------- requests
SP == <<" ">>
CRLF == <<"\r", "\n">>
IMS == <<"If-Modified-Since", ":">>
HTTP11 == <<"HTTP", "/", "1", ".", "1">>

RECURSIVE Slashes(_)
Slashes(n) == IF n = 0 THEN <<>> ELSE <<"/">> \o Slashes(n - 1)

\* Resource names a target can address once its leading "/" are gone; the
\* log file is in the directory the names are resolved in, which is the
\* directory www of the directory srv.
Names ==
    { <<>>,
      LOG_FILE,
      <<"a", "/", ".", ".", "/">> \o LOG_FILE,
      <<"a", "/", ".", ".", "/", ".", ".", "/", "www", "/">> \o LOG_FILE,
      <<".", "env">>,
      <<"a", "/", ".", "secret">>,
      <<"a", "/", ".", "txt">>,
      <<"a", ".", "b", "/", "c">>,
      <<"a">>,
      <<"a", ".", "exe">>,
      <<"a", ".", "html">>, <<"a", ".", "txt">>, <<"a", ".", "jpg">>,
      <<"a", ".", "jpeg">>, <<"a", ".", "png">>, <<"a", ".", "gif">> }

\* Names that targets address with any number of leading "/".
SlashedNames == { <<>>, <<".", "env">>, <<"a", ".", "txt">> }

\* Request targets: every name after one "/", some after none or several.
Targets ==
    ({ Slashes(1) \o n : n \in Names }
     \cup { Slashes(k) \o n : k \in 0..MaxSlashes, n \in SlashedNames }) \ {<<>>}

Methods == { <<"GET">>, <<"HEAD">>, <<"DELETE">> }

\* Request lines with three tokens, and with zero, one, two and four.
WellFormedLines == { m \o SP \o t \o SP \o HTTP11 : m \in Methods, t \in Targets }

MalformedLines ==
    { <<>>,
      SP,
      <<"GET">>,
      <<"GET">> \o SP \o <<"/", "a", ".", "txt">>,
      <<"GET">> \o SP \o <<"/", "my">> \o SP \o <<"a", ".", "txt">> \o SP \o HTTP11,
      <<"DELETE">> \o SP \o <<"/", "a", ".", "txt">> \o SP \o HTTP11 \o SP \o <<"x">> \o SP \o <<"y">> }

\* Header blocks: none, a dated If-Modified-Since, one that is no date, and
\* one whose name is in lower case.
HeaderBlocks ==
    { <<>> }
    \cup { IMS \o SP \o ToDigits(s) \o CRLF : s \in 0..MaxSec }
    \cup { IMS \o SP \o <<"yesterday">> \o CRLF }
    \cup { <<"if-modified-since", ":">> \o SP \o ToDigits(MaxSec) \o CRLF }

\* Header blocks with two If-Modified-Since lines: one that is no date
\* before and after a dated one, and an old date before a recent one.
RepeatedHeaderBlocks ==
    { IMS \o SP \o <<"yesterday">> \o CRLF \o IMS \o SP \o ToDigits(MaxSec) \o CRLF,
      IMS \o SP \o ToDigits(MaxSec) \o CRLF \o IMS \o SP \o <<"yesterday">> \o CRLF,
      IMS \o SP \o ToDigits(0) \o CRLF \o IMS \o SP \o ToDigits(MaxSec) \o CRLF }

\* Requests whose text holds other whitespace and line boundaries, invalid
\* bytes inside a token, and If-Modified-Since values with text around
\* the date, apart from it and glued to it.
GetA == <<"GET">> \o SP \o <<"/", "a", ".", "txt">> \o SP \o HTTP11 \o CRLF

OddWires ==
    { <<"GET", "\\x1f", "/", "a", ".", "txt", "\\x1f">> \o HTTP11 \o CRLF \o CRLF,
      <<"GET", " ", "/", "a", ".", "txt", "\\xa0">> \o HTTP11 \o CRLF \o CRLF,
      <<"GET", " ", "/", "a", ".", "txt", "\\x0b">> \o HTTP11 \o CRLF \o CRLF,
      <<"GE", InvalidByte, "T", " ", "/", "a", ".", "txt", " ">> \o HTTP11 \o CRLF \o CRLF,
      <<"GET", " ", "/", "a", ".", "t", InvalidByte, "xt", " ">> \o HTTP11 \o CRLF \o CRLF,
      GetA \o <<"X", ":", " ", "y", "\\x0c">> \o IMS \o SP \o <<"yesterday">> \o CRLF \o CRLF,
      GetA \o <<"If-Modified-", InvalidByte, "Since", ":", " ", "yesterday">> \o CRLF \o CRLF,
      GetA \o IMS \o <<"\\xa0">> \o ToDigits(MaxSec) \o <<"\\xa0">> \o CRLF \o CRLF,
      GetA \o IMS \o ToDigits(MaxSec) \o SP \o <<"x">> \o CRLF \o CRLF,
      GetA \o IMS \o SP \o <<"x">> \o SP \o ToDigits(MaxSec) \o CRLF \o CRLF,
      GetA \o IMS \o SP \o <<"x">> \o ToDigits(MaxSec) \o CRLF \o CRLF,
      GetA \o IMS \o SP \o ToDigits(MaxSec) \o <<"x">> \o CRLF \o CRLF }

RECURSIVE Junk(_)
Junk(n) == IF n = 0 THEN <<>> ELSE <<InvalidByte>> \o Junk(n - 1)

\* What a client can have sent when recv(1024) returns.
Wires ==
    { <<>> }
    \cup { Junk(n) : n \in 1..MaxJunk }
    \cup { l \o CRLF \o h \o CRLF : l \in WellFormedLines, h \in HeaderBlocks }
    \cup { m \o SP \o <<"/", "a", ".", "txt">> \o SP \o HTTP11 \o CRLF \o h \o CRLF :
             m \in {<<"GET">>, <<"HEAD">>}, h \in RepeatedHeaderBlocks }
    \cup { l \o CRLF \o CRLF : l \in MalformedLines }
    \cup OddWires
    \cup { <<"\n">> }

\* ------------------------------------------------------------- filesystem
\* The file system as the handler can observe it at the resolved name.
RECURSIVE Content(_)
Content(n) ==
    IF n = 0 THEN <<>>
    ELSE Content(n - 1) \o <<IF n % 2 = 1 THEN "x" ELSE InvalidByte>>

NoFile == [exists |-> FALSE, data |-> <<>>, mtime |-> 0]

FileStates ==
    { NoFile }
    \cup { [exists |-> TRUE, data |-> Content(n), mtime |-> t] :
             n \in 0..MaxSize, t \in 0..MaxTicks }

\* The segments of a path name: the texts between its "/".
RECURSIVE SegmentsFrom(_, _, _)
SegmentsFrom(s, i, cur) ==
    IF i > Len(s) THEN <<cur>>
    ELSE IF s[i] = "/" THEN <<cur>> \o SegmentsFrom(s, i + 1, <<>>)
    ELSE SegmentsFrom(s, i + 1, Append(cur, s[i]))

PathSegments(name) == SegmentsFrom(name, 1, <<>>)

\* The working directory of the server, which is the directory served, and
\* the log file in it: the directories from the root down.
WorkingDirectory == << <<"srv">>, <<"www">> >>
LogPath == Append(WorkingDirectory, LOG_FILE)

\* Where the operating system arrives when it walks the segments of a name
\* from the directory at: an empty segment and "." stay, ".." goes to the
\* parent, which for the root is the root, any other segment goes down.
\* The log file is no directory, so nothing is found through it; the
\* directories a name passes through exist.
RECURSIVE Walk(_, _)
Walk(segs, at) ==
    IF segs = <<>> THEN (IF at = LogPath THEN "log" ELSE "other")
    ELSE IF at = LogPath THEN "nothing"
    ELSE IF Head(segs) \in {<<>>, <<".">>} THEN Walk(Tail(segs), at)
    ELSE IF Head(segs) = <<".", ".">>
         THEN Walk(Tail(segs), IF at = <<>> THEN at ELSE SubSeq(at, 1, Len(at) - 1))
    ELSE Walk(Tail(segs), Append(at, Head(segs)))

\* What open(name), os.path.exists(name) and os.path.getmtime(name) find:
\* "log" for the file that open(LOG_FILE, "a") writes, "nothing" for a name
\* that goes through it, "other" for any other file.  A name that begins
\* with "/" is walked from the root, any other from the working directory.
Location(name) ==
    Walk(PathSegments(name),
         IF name # <<>> /\ name[1] = "/" THEN <<>> ELSE WorkingDirectory)

\* The file at a name, f being the file system apart from the log file and
\* lf the log file.
FileOf(name, f, lf) ==
    CASE Location(name) = "log" -> lf
      [] Location(name) = "nothing" -> NoFile
      [] OTHER -> f

\* The bytes of a lexeme: an invalid byte is one byte, a character written
\* by its escape has the bytes of its UTF-8 encoding (one below U+0080, two
\* below U+0800, three below U+10000, else four), any other character is
\* one byte.
HexLow == {"0", "1", "2", "3", "4", "5", "6", "7"}

RECURSIVE Utf8Len(_)
Utf8Len(l) ==
    IF l = InvalidByte THEN 1
    ELSE IF Len(l) = 0 THEN 0
    ELSE IF Len(l) >= 4 /\ SubSeq(l, 1, 2) = "\\x"
         THEN (IF SubSeq(l, 3, 3) \in HexLow THEN 1 ELSE 2) + Utf8Len(SubSeq(l, 5, Len(l)))
    ELSE IF Len(l) >= 6 /\ SubSeq(l, 1, 2) = "\\u"
         THEN (IF SubSeq(l, 3, 4) = "00" /\ SubSeq(l, 5, 5) \in HexLow THEN 1
               ELSE IF SubSeq(l, 3, 3) = "0" /\ SubSeq(l, 4, 4) \in HexLow THEN 2
               ELSE 3) + Utf8Len(SubSeq(l, 7, Len(l)))
    ELSE IF Len(l) >= 10 /\ SubSeq(l, 1, 2) = "\\U"
         THEN 4 + Utf8Len(SubSeq(l, 11, Len(l)))
    ELSE 1 + Utf8Len(SubSeq(l, 2, Len(l)))

\* len(data) of bytes.
RECURSIVE ByteLen(_)
ByteLen(data) ==
    IF data = <<>> THEN 0 ELSE Utf8Len(data[1]) + ByteLen(Tail(data))

\* -------------------------------------------------------------- responses
NoLength == -1      \* content_length=None
NoText == <<>>      \* content_type=None, last_modified=None

Field(name, value) == [name |-> name, value |-> value]

\* generate_headers with the connection of a 200 left open.
generate_headers_keep_alive(status_code, content_type, content_length, last_modified) ==
    [status |-> status_code,
     fields |-> << Field("Date", <<"now">>),
                   Field("Server", <<"COMP2322Project_PythonServer/1.0">>) >>
                \o (IF content_type # NoText
                    THEN << Field("Content-Type", content_type) >> ELSE <<>>)
                \o (IF content_length # NoLength /\ content_length # 0
                    THEN << Field("Content-Length", ToDigits(content_length)) >> ELSE <<>>)
                \o (IF last_modified # NoText
                    THEN << Field("Last-Modified", last_modified) >> ELSE <<>>)
                \o << Field("Connection",
                            IF content_type # NoText THEN <<"keep-alive">> ELSE <<"close">>) >>]

\* generate_headers: the status line, then the field lines in order.
generate_headers(status_code, content_type, content_length, last_modified) ==
    [status |-> status_code,
     fields |-> << Field("Date", <<"now">>),
                   Field("Server", <<"COMP2322Project_PythonServer/1.0">>) >>
                \o (IF content_type # NoText
                    THEN << Field("Content-Type", content_type) >> ELSE <<>>)
                \o (IF content_length # NoLength /\ content_length # 0
                    THEN << Field("Content-Length", ToDigits(content_length)) >> ELSE <<>>)
                \o (IF last_modified # NoText
                    THEN << Field("Last-Modified", last_modified) >> ELSE <<>>)
                \o << Field("Connection", <<"close">>) >>]

\* The bytes handed to sendall: a header block and what follows it.
Message(headers, body) == [status |-> headers.status, fields |-> headers.fields, body |-> body]

ErrorMessage(code, explanation) ==
    Message(generate_headers(ERROR[code], NoText, NoLength, NoText),
            <<ERROR[code]>> \o explanation)

\* log_request: one line of the log file.  The address of a client is a
\* number, each connection coming from an address of its own.
LogLine(client_ip, file_requested, response_status) ==
    [ip |-> client_ip, file |-> file_requested, status |-> response_status]

\* str(datetime.now()), the request_time of a line: 26 characters, 19 when
\* the microsecond is 0.  The digits are written as letters.
Stamps == {"YYYY-MM-DD hh:mm:ss.ffffff", "YYYY-MM-DD hh:mm:ss"}

\* The text of a line, as log.write gets it (l.40).
LogText(line, request_time) ==
    ToDigits(line.ip) \o <<" - ", request_time, " - ">> \o line.file
        \o <<" - ", line.status, "\n">>

HasField(msg, name) == \E i \in 1..Len(msg.fields) : msg.fields[i].name = name
FieldValue(msg, name) ==
    msg.fields[CHOOSE i \in 1..Len(msg.fields) : msg.fields[i].name = name].value


\* ------------------------------------------------------------------ state
VARIABLES
    wire,             \* the bytes the client sent (what recv returns)
    fs,               \* the file system at the resolved name, the log file apart
    logfile,          \* the file LOG_FILE: its bytes and its modification time
    zone,             \* the local time zone of the server, hours east of GMT
    client_address,   \* parameter of handle_client: the address of the client
    pc,               \* position of handle_client
    request,          \* local: the decoded text
    request_lines,    \* local: request.splitlines()
    method,           \* local
    file_requested,   \* local
    media_type,       \* local
    last_modified_timestamp,  \* local: os.path.getmtime(file_requested)
    last_modified,    \* local: formatdate(last_modified_timestamp)
    file_data,        \* local
    sent,             \* the messages sendall has put on the socket, in order
    pending,          \* the log_request call that follows the send just made
    log,              \* the lines appended to LOG_FILE, in order
    closed,           \* client_socket.close() has run
    fsops,            \* file-system calls made so far and what they returned
    faults,           \* recv / send / log / open calls that raised, in order
    prev,             \* client side: the 200 answer to an earlier GET, if any
    orig,             \* client side: the first connection, once a second one was made
    repeatOf,         \* client side: what this connection's request got before
    tail,             \* the handlers of earlier connections that have not returned
    threads,          \* start_server: the handler threads started, in accept order
    accepting         \* start_server: the accept loop is running

locals == <<request, request_lines, method, file_requested, media_type,
            last_modified_timestamp, last_modified, file_data>>

history == <<prev, orig, repeatOf, tail>>
server == <<threads, accepting>>

\* What no step of a handler changes.
session == <<wire, fs, zone, client_address, history, server>>

vars == <<session, logfile, pc, locals, sent, pending, log, closed, fsops, faults>>

\* The request line of the bytes w as the handler tokenizes it.
TokensOf(w) ==
    LET lines == SplitLines(Decode(w))
    IN IF lines = <<>> THEN <<>> ELSE Split(lines[1])

RequestTokens == TokensOf(wire)

RequestTarget == RequestTokens[2]
ThreeTokens == Len(RequestTokens) = 3

\* path.lstrip("/"), then the default page for the empty name.
ResolveOneSlash(path) ==
    IF StripOneSlash(path) = <<>> THEN DEFAULT_PAGE ELSE StripOneSlash(path)
Resolve(path) ==
    IF LStripSlash(path) = <<>> THEN DEFAULT_PAGE ELSE LStripSlash(path)

\* The request names the log file.
AsksForLog == ThreeTokens /\ Location(Resolve(RequestTarget)) = "log"

\* The requests that name the log file.
LogWires ==
    { w \in Wires : Len(TokensOf(w)) = 3 /\ Location(Resolve(TokensOf(w)[2])) = "log" }

\* Some If-Modified-Since value of the request is a date with text glued
\* behind it: the one case in which the server's zone is looked at.
ZoneMatters(w) ==
    \E i \in 1..Len(SplitLines(Decode(w))) :
        /\ StartsWith(SplitLines(Decode(w))[i], IMS)
        /\ ~ParseFails(Strip(AfterColon(SplitLines(Decode(w))[i])))
        /\ ~ZoneKnown(Strip(AfterColon(SplitLines(Decode(w))[i])))

\* fs is the file at the name the request resolves to when that is not the
\* log file, and no file when it is.  The server runs in any zone; the
\* zones other than GMT are taken with the requests whose handling looks at
\* the zone.
Init ==
    /\ wire \in Wires
    /\ fs \in FileStates
    /\ wire \in LogWires => fs = NoFile
    /\ logfile = [exists |-> TRUE, data |-> <<>>, mtime |-> 0]
    /\ zone \in Zones
    /\ zone # 0 => ZoneMatters(wire)
    /\ client_address = 1
    /\ pc = "recv"
    /\ request = <<>>
    /\ request_lines = <<>>
    /\ method = <<>>
    /\ file_requested = <<>>
    /\ media_type = NoText
    /\ last_modified_timestamp = 0
    /\ last_modified = NoText
    /\ file_data = <<>>
    /\ sent = <<>>
    /\ pending = <<>>
    /\ log = <<>>
    /\ closed = FALSE
    /\ fsops = <<>>
    /\ faults = <<>>
    /\ prev = <<>>
    /\ orig = <<>>
    /\ repeatOf = <<>>
    /\ tail = <<>>
    /\ threads = <<>>
    /\ accepting = TRUE

\* The file a name resolves to: LOG_FILE is in the directory that is served.
FileAt(name) == FileOf(name, fs, logfile)

\* The names of the file-system calls made, in order.
Calls == [i \in 1..Len(fsops) |-> fsops[i].call]

\* log_request (l.38-40): the line is appended to LOG_FILE in one write; the
\* file's modification time becomes the time of the write.
Appended(line) ==
    /\ log' = Append(log, line)
    /\ \E t \in 0..MaxTicks, request_time \in Stamps :
          /\ t >= logfile.mtime
          /\ t <= logfile.mtime + MaxGap
          /\ logfile' = [exists |-> TRUE,
                         data |-> logfile.data \o LogText(line, request_time),
                         mtime |-> t]

\* log_request(line) before client_socket.sendall(msg).
LogThenSend(msg, line, ok, failed) ==
    \/ /\ Appended(line)
       /\ sent' = Append(sent, msg)
       /\ pc' = ok
       /\ UNCHANGED <<faults, pending>>
    \/ /\ faults' = Append(faults, "log")
       /\ pc' = failed
       /\ UNCHANGED <<sent, pending, log, logfile>>
    \/ /\ Appended(line)
       /\ faults' = Append(faults, "send")
       /\ pc' = failed
       /\ UNCHANGED <<sent, pending>>

\* client_socket.sendall(msg), to be followed by log_request(line): the
\* message is on the socket and the handler is about to log, after which
\* control goes to ok; or sendall raises and control goes to failed, where
\* it also goes when log_request raises.
SendThenLog(msg, line, ok, failed) ==
    \/ /\ sent' = Append(sent, msg)
       /\ pending' = <<[line |-> line, ok |-> ok, failed |-> failed]>>
       /\ pc' = "log"
       /\ UNCHANGED <<faults, log, logfile>>
    \/ /\ faults' = Append(faults, "send")
       /\ pc' = failed
       /\ UNCHANGED <<sent, pending, log, logfile>>

\* file_requested.startswith(".")
IsHiddenAnySegment(name) ==
    \E i \in 1..Len(name) : name[i] = "." /\ (i = 1 \/ name[i - 1] = "/")
IsHidden(name) == StartsWith(name, <<".">>)

\* MEDIA_TYPES.get(os.path.splitext(file_requested)[1])
MediaTypeLastDot(name) ==
    IF LastDotExt(name) \in DOMAIN MEDIA_TYPES THEN MEDIA_TYPES[LastDotExt(name)] ELSE NoText
MediaType(name) ==
    IF SplitExt(name) \in DOMAIN MEDIA_TYPES THEN MEDIA_TYPES[SplitExt(name)] ELSE NoText

\* The loop with a strict comparison.
RECURSIVE ScanHeadersStrict(_, _, _)
ScanHeadersStrict(lines, i, mtime) ==
    IF i > Len(lines) THEN "pass"
    ELSE IF StartsWith(lines[i], IMS)
         THEN IF ParseFails(Strip(AfterColon(lines[i]))) THEN "raise"
              ELSE IF ParseDate(Strip(AfterColon(lines[i])), zone) > mtime THEN "304"
              ELSE ScanHeadersStrict(lines, i + 1, mtime)
         ELSE ScanHeadersStrict(lines, i + 1, mtime)

\* The loop skipping a value that is no date.
RECURSIVE ScanHeadersIgnoreBad(_, _, _)
ScanHeadersIgnoreBad(lines, i, mtime) ==
    IF i > Len(lines) THEN "pass"
    ELSE IF StartsWith(lines[i], IMS) /\ ~ParseFails(Strip(AfterColon(lines[i])))
              /\ ParseDate(Strip(AfterColon(lines[i])), zone) >= mtime
         THEN "304"
         ELSE ScanHeadersIgnoreBad(lines, i + 1, mtime)

\* The loop over request_lines (l.110-119): "raise" when a scanned
\* If-Modified-Since value is no date, "304" at the first one not older
\* than the file, "pass" when the loop ends.
RECURSIVE ScanHeaders(_, _, _)
ScanHeaders(lines, i, mtime) ==
    IF i > Len(lines) THEN "pass"
    ELSE IF StartsWith(lines[i], IMS)
         THEN LET if_modified_since_str == Strip(AfterColon(lines[i])) IN
              IF ParseFails(if_modified_since_str) THEN "raise"
              ELSE IF ParseDate(if_modified_since_str, zone) >= mtime THEN "304"
              ELSE ScanHeaders(lines, i + 1, mtime)
         ELSE ScanHeaders(lines, i + 1, mtime)

\* ---------------------------------------------------------------- actions
\* l.60-62: one recv, lenient decode, silent return on the empty text; recv
\* is inside the try block, so when it raises the 500 handler runs.
Receive ==
    /\ pc = "recv"
    /\ \/ /\ request' = Decode(wire)
          /\ pc' = IF Decode(wire) = <<>> THEN "finally" ELSE "parse"
          /\ UNCHANGED faults
       \/ /\ faults' = Append(faults, "recv")
          /\ pc' = "except"
          /\ UNCHANGED request
    /\ UNCHANGED <<session, logfile, request_lines, method, file_requested, media_type,
                   last_modified_timestamp, last_modified, file_data,
                   sent, pending, log, closed, fsops>>

\* l.65-72: the lines are split off, and fewer than three tokens on the
\* first line is a 400.
Parse ==
    /\ pc = "parse"
    /\ request_lines' = SplitLines(request)
    /\ LET lines == SplitLines(request) IN
       IF lines = <<>> \/ Len(Split(lines[1])) < 3
       THEN SendThenLog(ErrorMessage(400, <<>>),
                        LogLine(client_address, <<"Malformed HTTP request">>, ERROR[400]),
                        "finally", "except")
       ELSE /\ pc' = "resolve"
            /\ UNCHANGED <<sent, pending, log, logfile, faults>>
    /\ UNCHANGED <<session, request, method, file_requested, media_type,
                   last_modified_timestamp, last_modified, file_data, closed, fsops>>

\* l.74-78: the three-way unpacking raises ValueError on any other count.
ResolvePath ==
    /\ pc = "resolve"
    /\ LET tokens == Split(request_lines[1]) IN
       IF Len(tokens) # 3
       THEN /\ pc' = "except"
            /\ UNCHANGED <<method, file_requested>>
       ELSE /\ method' = tokens[1]
            /\ file_requested' = Resolve(tokens[2])
            /\ pc' = "hidden"
    /\ UNCHANGED <<session, logfile, request, request_lines, media_type,
                   last_modified_timestamp, last_modified, file_data,
                   sent, pending, log, closed, fsops, faults>>

\* l.81-86
CheckHidden ==
    /\ pc = "hidden"
    /\ IF IsHidden(file_requested)
       THEN SendThenLog(ErrorMessage(403, <<": You do not have permission to access this resource.">>),
                        LogLine(client_address, file_requested, ERROR[403]),
                        "finally", "except")
       ELSE /\ pc' = "exists"
            /\ UNCHANGED <<sent, pending, log, logfile, faults>>
    /\ UNCHANGED <<session, locals, closed, fsops>>

\* l.89-94
CheckExists ==
    /\ pc = "exists"
    /\ fsops' = Append(fsops, [call |-> "exists", result |-> FileAt(file_requested).exists])
    /\ IF ~FileAt(file_requested).exists
       THEN SendThenLog(ErrorMessage(404, <<>>),
                        LogLine(client_address, file_requested, ERROR[404]),
                        "finally", "except")
       ELSE /\ pc' = "media"
            /\ UNCHANGED <<sent, pending, log, logfile, faults>>
    /\ UNCHANGED <<session, locals, closed>>

\* l.97-105
ClassifyMedia ==
    /\ pc = "media"
    /\ media_type' = MediaType(file_requested)
    /\ IF MediaType(file_requested) = NoText
       THEN SendThenLog(ErrorMessage(415, <<": The requested file type is not supported.">>),
                        LogLine(client_address, file_requested, ERROR[415]),
                        "finally", "except")
       ELSE /\ pc' = "cond"
            /\ UNCHANGED <<sent, pending, log, logfile, faults>>
    /\ UNCHANGED <<session, request, request_lines, method, file_requested,
                   last_modified_timestamp, last_modified, file_data, closed, fsops>>

\* l.108-119
EvaluateConditional ==
    /\ pc = "cond"
    /\ fsops' = Append(fsops, [call |-> "getmtime", result |-> FileAt(file_requested).mtime])
    /\ last_modified_timestamp' = FileAt(file_requested).mtime
    /\ last_modified' = FormatDate(FileAt(file_requested).mtime)
    /\ LET outcome == ScanHeaders(request_lines, 1, FileAt(file_requested).mtime) IN
       CASE outcome = "raise" ->
                /\ pc' = "except"
                /\ UNCHANGED <<sent, pending, log, logfile, faults>>
         [] outcome = "304" ->
                SendThenLog(Message(generate_headers(ERROR[304], NoText, NoLength, NoText), <<>>),
                            LogLine(client_address, file_requested, ERROR[304]),
                            "finally", "except")
         [] outcome = "pass" ->
                /\ pc' = "read"
                /\ UNCHANGED <<sent, pending, log, logfile, faults>>
    /\ UNCHANGED <<session, request, request_lines, method, file_requested, media_type,
                   file_data, closed>>

\* l.121-122: open and read; either may raise.
ReadFile ==
    /\ pc = "read"
    /\ \/ /\ file_data' = FileAt(file_requested).data
          /\ fsops' = Append(fsops, [call |-> "open", result |-> FileAt(file_requested).data])
          /\ pc' = "dispatch"
          /\ UNCHANGED faults
       \/ /\ faults' = Append(faults, "open")
          /\ fsops' = Append(fsops, [call |-> "open", result |-> <<>>])
          /\ pc' = "except"
          /\ UNCHANGED file_data
    /\ UNCHANGED <<session, logfile, request, request_lines, method, file_requested, media_type,
                   last_modified_timestamp, last_modified, sent, pending, log, closed>>

\* l.125-139
DispatchAnyMethodAsGet ==
    /\ pc = "dispatch"
    /\ SendThenLog(Message(generate_headers(ERROR[200], media_type, ByteLen(file_data), last_modified),
                           file_data),
                   LogLine(client_address, file_requested, ERROR[200]),
                   "finally", "except")
    /\ UNCHANGED <<session, locals, closed, fsops>>
Dispatch ==
    /\ pc = "dispatch"
    /\ CASE method = <<"GET">> ->
                SendThenLog(Message(generate_headers(ERROR[200], media_type, ByteLen(file_data),
                                                     last_modified),
                                    file_data),
                            LogLine(client_address, file_requested, ERROR[200]),
                            "finally", "except")
         [] method = <<"HEAD">> ->
                SendThenLog(Message(generate_headers(ERROR[200], media_type, ByteLen(file_data),
                                                     last_modified),
                                    <<>>),
                            LogLine(client_address, file_requested, ERROR[200]),
                            "finally", "except")
         [] OTHER ->
                SendThenLog(ErrorMessage(400, <<": Unsupported HTTP method.">>),
                            LogLine(client_address, <<"Invalid Method">>, ERROR[400]),
                            "finally", "except")
    /\ UNCHANGED <<session, locals, closed, fsops>>

\* l.141-146: the handler of any exception; what it raises itself is not
\* caught, and the finally clause still runs.
ExceptWithoutFinally ==
    /\ pc = "except"
    /\ SendThenLog(ErrorMessage(500, <<>>),
                   LogLine(client_address, <<"Unknown Error">>, ERROR[500]),
                   "finally", "done")
    /\ UNCHANGED <<session, locals, closed, fsops>>
ExceptLogsResource ==
    /\ pc = "except"
    /\ SendThenLog(ErrorMessage(500, <<>>),
                   LogLine(client_address, file_requested, ERROR[500]),
                   "finally", "finally")
    /\ UNCHANGED <<session, locals, closed, fsops>>
Except ==
    /\ pc = "except"
    /\ SendThenLog(ErrorMessage(500, <<>>),
                   LogLine(client_address, <<"Unknown Error">>, ERROR[500]),
                   "finally", "finally")
    /\ UNCHANGED <<session, locals, closed, fsops>>

\* log_request (l.38-40), called after each sendall (l.71, 85, 93, 104, 118,
\* 128, 133, 139, 146): the line is appended, or the call raises.
LogRequest ==
    /\ pc = "log"
    /\ \/ /\ Appended(pending[1].line)
          /\ pc' = pending[1].ok
          /\ UNCHANGED faults
       \/ /\ faults' = Append(faults, "log")
          /\ pc' = pending[1].failed
          /\ UNCHANGED <<log, logfile>>
    /\ pending' = <<>>
    /\ UNCHANGED <<session, locals, sent, closed, fsops>>

\* l.148-149
Finally ==
    /\ pc = "finally"
    /\ closed' = TRUE
    /\ pc' = "done"
    /\ UNCHANGED <<session, logfile, locals, sent, pending, log, fsops, faults>>

\* A client connects again as soon as it has its answer: the handler of
\* its connection has sent a message, from the try block or from the 500
\* handler, or has returned.  start_server (l.161-165) hands the new socket
\* to a fresh handle_client, while the handler of the earlier connection
\* goes on from where it is.
Answered1 ==
    \/ pc \in {"finally", "done"}
    \/ pc \in {"log", "except"} /\ sent # <<>>

\* The handlers that go on while the new connection is handled: those
\* there were, and this one when it has a call to make other than close.
\* It is about to call log_request with a line, in the 500 handler or not
\* (handling), or about to enter the 500 handler.
Handover ==
    IF pc \in {"log", "except"}
    THEN Append(tail,
                [ip |-> client_address,
                 pc |-> pc,
                 line |-> IF pc = "log" THEN pending[1].line
                          ELSE LogLine(client_address, <<"Unknown Error">>, ERROR[500]),
                 handling |-> pc = "log" /\ pending[1].failed # "except",
                 sent |-> sent,
                 faults |-> faults])
    ELSE tail

\* What the client keeps of a connection: what it sent and was sent, and
\* which calls of the handler raised.
Connection == [ip |-> client_address, wire |-> wire, request |-> request, sent |-> sent,
               faults |-> faults, fsops |-> fsops]

\* The requests of the clients that connect again: the GET for a file with
\* no header, those for the log file by two of its names, and those whose
\* request line has not three tokens.
Revisited == { <<"/">> \o n : n \in {LOG_FILE, <<"a", "/", ".", ".", "/">> \o LOG_FILE} }

Returning ==
    { w \in Wires :
        Len(TokensOf(w)) = 3 => (w = GetA \o CRLF \/ TokensOf(w)[2] \in Revisited) }

\* A client that got 200 for a GET asks again on a new connection for the
\* same target, with GET or HEAD, sending back the Last-Modified value it
\* received; nobody else touches the files.
Reconnect ==
    /\ Answered1
    /\ wire \in Returning
    /\ prev = <<>>
    /\ repeatOf = <<>>
    /\ method = <<"GET">>
    /\ sent # <<>>
    /\ sent[1].status = ERROR[200]
    /\ \E m \in {<<"GET">>, <<"HEAD">>} :
          wire' = m \o SP \o Split(request_lines[1])[2] \o SP \o HTTP11 \o CRLF
                  \o IMS \o SP \o FieldValue(sent[1], "Last-Modified") \o CRLF
                  \o CRLF
    /\ prev' = <<sent[1]>>
    /\ orig' = <<Connection>>
    /\ tail' = Handover
    /\ client_address' = client_address + 1
    /\ pc' = "recv"
    /\ request' = <<>>
    /\ request_lines' = <<>>
    /\ method' = <<>>
    /\ file_requested' = <<>>
    /\ media_type' = NoText
    /\ last_modified_timestamp' = 0
    /\ last_modified' = NoText
    /\ file_data' = <<>>
    /\ sent' = <<>>
    /\ pending' = <<>>
    /\ closed' = FALSE
    /\ fsops' = <<>>
    /\ faults' = <<>>
    /\ UNCHANGED <<fs, logfile, zone, log, repeatOf, server>>

\* A client whose request began with GET and was handled with no call
\* raising sends the same bytes again on a new connection, directly or
\* after the conditional request of Reconnect was handled in between, also
\* with no call raising; nobody else touches the files.
Repeat ==
    /\ Answered1
    /\ repeatOf = <<>>
    /\ faults = <<>>
    /\ IF orig = <<>>
       THEN /\ request # <<>>
            /\ request[1] = "GET"
            /\ wire \in Returning
            /\ wire' = wire
            /\ repeatOf' = <<Connection>>
       ELSE /\ orig[1].faults = <<>>
            /\ orig[1].request[1] = "GET"
            /\ wire' = orig[1].wire
            /\ repeatOf' = orig
    /\ prev' = <<>>
    /\ tail' = Handover
    /\ client_address' = client_address + 1
    /\ pc' = "recv"
    /\ request' = <<>>
    /\ request_lines' = <<>>
    /\ method' = <<>>
    /\ file_requested' = <<>>
    /\ media_type' = NoText
    /\ last_modified_timestamp' = 0
    /\ last_modified' = NoText
    /\ file_data' = <<>>
    /\ sent' = <<>>
    /\ pending' = <<>>
    /\ closed' = FALSE
    /\ fsops' = <<>>
    /\ faults' = <<>>
    /\ UNCHANGED <<fs, logfile, zone, log, orig, server>>

\* The earlier handlers without the k-th.
Without(handlers, k) ==
    SubSeq(handlers, 1, k - 1) \o SubSeq(handlers, k + 1, Len(handlers))

\* The client's record of a connection, brought up to date with what its
\* handler e has sent since and which of its calls have raised.
Sync(c, e) ==
    IF c # <<>> /\ c[1].ip = e.ip
    THEN <<[c[1] EXCEPT !.sent = e.sent, !.faults = e.faults]>>
    ELSE c

\* log_request (l.38-40) in the handler of an earlier connection, which
\* then closes its socket and returns; or the call raises: in the try block
\* control goes to the 500 handler, in the 500 handler the exception leaves
\* it, the socket is closed and the handler is over.
EarlierLogRequest ==
    \E k \in 1..Len(tail) :
        /\ tail[k].pc = "log"
        /\ \/ /\ Appended(tail[k].line)
              /\ tail' = Without(tail, k)
              /\ UNCHANGED <<orig, repeatOf>>
           \/ LET e == [tail[k] EXCEPT !.faults = Append(@, "log"), !.pc = "except"]
              IN /\ tail' = IF tail[k].handling THEN Without(tail, k)
                                                ELSE [tail EXCEPT ![k] = e]
                 /\ orig' = Sync(orig, e)
                 /\ repeatOf' = Sync(repeatOf, e)
                 /\ UNCHANGED <<log, logfile>>
        /\ UNCHANGED <<wire, fs, zone, client_address, prev, server,
                       pc, locals, sent, pending, closed, fsops, faults>>

\* l.141-146 in the handler of an earlier connection: the 500 message is
\* sent and the line 'Unknown Error' is to be logged, or sendall raises,
\* the socket is closed and the handler is over.
EarlierExcept ==
    \E k \in 1..Len(tail) :
        /\ tail[k].pc = "except"
        /\ \/ LET e == [tail[k] EXCEPT
                            !.sent = Append(@, ErrorMessage(500, <<>>)),
                            !.line = LogLine(tail[k].ip, <<"Unknown Error">>, ERROR[500]),
                            !.handling = TRUE,
                            !.pc = "log"]
              IN /\ tail' = [tail EXCEPT ![k] = e]
                 /\ orig' = Sync(orig, e)
                 /\ repeatOf' = Sync(repeatOf, e)
           \/ LET e == [tail[k] EXCEPT !.faults = Append(@, "send")]
              IN /\ tail' = Without(tail, k)
                 /\ orig' = Sync(orig, e)
                 /\ repeatOf' = Sync(repeatOf, e)
        /\ UNCHANGED <<wire, fs, zone, client_address, prev, server, logfile, log,
                       pc, locals, sent, pending, closed, fsops, faults>>

\* One run of handle_client.
HandlerNext ==
    \/ Receive
    \/ Parse
    \/ ResolvePath
    \/ CheckHidden
    \/ CheckExists
    \/ ClassifyMedia
    \/ EvaluateConditional
    \/ ReadFile
    \/ Dispatch
    \/ Except
    \/ LogRequest
    \/ Finally

Next ==
    \/ Reconnect
    \/ Repeat
    \/ EarlierLogRequest
    \/ EarlierExcept
    \/ HandlerNext

Spec == Init /\ [][Next]_vars

\* A step in which sendall (l.70, 84, 92, 103, 117, 127, 132, 138, 145)
\* returns or raises, and a step of the handler in which neither recv nor
\* sendall does.
SendallEnds ==
    /\ HandlerNext
    /\ \/ sent' # sent
       \/ Len(faults') > Len(faults) /\ faults'[Len(faults')] = "send"

Proceeds == pc # "recv" /\ HandlerNext /\ ~SendallEnds

\* One run of handle_client in its thread.  The socket has no timeout:
\* recv (l.60) returns when the client has sent or closed, sendall when the
\* client has taken the message or the send buffer has room for it, either
\* raises when the connection breaks, and either blocks as long as the
\* client lets it, so nothing makes the handler leave them.  Every other
\* call, on local files, returns or raises; the thread is scheduled
\* (l.164-165) until it returns.
FairSpec == Init /\ [][HandlerNext]_vars /\ WF_vars(Proceeds)

\* ----------------------------------------------------------------- server
\* start_server: the accept loop starts one thread per connection; the
\* threads share the file system, LOG_FILE included, and nothing else.

\* What the threads' clients send: nothing, one invalid byte, a GET for a
\* file and a GET for the log file.
ThreadWires ==
    { <<>>,
      Junk(1),
      <<"GET">> \o SP \o <<"/", "a", ".", "txt">> \o SP \o HTTP11 \o CRLF \o CRLF,
      <<"GET">> \o SP \o <<"/">> \o LOG_FILE \o SP \o HTTP11 \o CRLF \o CRLF }

ThreadFileStates == { NoFile, [exists |-> TRUE, data |-> Content(1), mtime |-> 0] }

\* What the try block of handle_client (l.59-139) decides for the bytes w
\* from the address a, the file f and the log file lf when no call raises:
\* the silent return, an exception, or a message to send and a line to log;
\* calls: the file-system calls it has made by then.
Outcome(kind, msg, line, calls) == [kind |-> kind, msg |-> msg, line |-> line, calls |-> calls]

Pipeline(w, f, lf, a) ==
    LET lines == SplitLines(Decode(w))
        tokens == Split(lines[1])
        name == Resolve(tokens[2])
        file == FileOf(name, f, lf)
        scan == ScanHeaders(lines, 1, file.mtime)
    IN IF Decode(w) = <<>> THEN Outcome("silent", <<>>, <<>>, <<>>)
       ELSE IF lines = <<>> \/ Len(tokens) < 3
            THEN Outcome("answer", ErrorMessage(400, <<>>),
                         LogLine(a, <<"Malformed HTTP request">>, ERROR[400]), <<>>)
       ELSE IF Len(tokens) # 3 THEN Outcome("raise", <<>>, <<>>, <<>>)
       ELSE IF IsHidden(name)
            THEN Outcome("answer",
                         ErrorMessage(403, <<": You do not have permission to access this resource.">>),
                         LogLine(a, name, ERROR[403]), <<>>)
       ELSE IF ~file.exists
            THEN Outcome("answer", ErrorMessage(404, <<>>), LogLine(a, name, ERROR[404]),
                         <<"exists">>)
       ELSE IF MediaType(name) = NoText
            THEN Outcome("answer",
                         ErrorMessage(415, <<": The requested file type is not supported.">>),
                         LogLine(a, name, ERROR[415]), <<"exists">>)
       ELSE IF scan = "raise" THEN Outcome("raise", <<>>, <<>>, <<"exists", "getmtime">>)
       ELSE IF scan = "304"
            THEN Outcome("answer",
                         Message(generate_headers(ERROR[304], NoText, NoLength, NoText), <<>>),
                         LogLine(a, name, ERROR[304]), <<"exists", "getmtime">>)
       ELSE IF tokens[1] = <<"GET">>
            THEN Outcome("answer",
                         Message(generate_headers(ERROR[200], MediaType(name), ByteLen(file.data),
                                                  FormatDate(file.mtime)), file.data),
                         LogLine(a, name, ERROR[200]), <<"exists", "getmtime", "open">>)
       ELSE IF tokens[1] = <<"HEAD">>
            THEN Outcome("answer",
                         Message(generate_headers(ERROR[200], MediaType(name), ByteLen(file.data),
                                                  FormatDate(file.mtime)), <<>>),
                         LogLine(a, name, ERROR[200]), <<"exists", "getmtime", "open">>)
       ELSE Outcome("answer", ErrorMessage(400, <<": Unsupported HTTP method.">>),
                    LogLine(a, <<"Invalid Method">>, ERROR[400]), <<"exists", "getmtime", "open">>)

\* The 500 handler's message and line (l.141-146).
Handler500(a) ==
    Outcome("answer", ErrorMessage(500, <<>>), LogLine(a, <<"Unknown Error">>, ERROR[500]), <<>>)

connection == <<wire, zone, client_address, pc, locals, sent, pending, closed, fsops, faults, history>>

ServerInit ==
    /\ wire = <<>>
    /\ fs \in ThreadFileStates
    /\ logfile = [exists |-> TRUE, data |-> <<>>, mtime |-> 0]
    /\ zone = 0
    /\ client_address = 0
    /\ pc = "idle"
    /\ request = <<>>
    /\ request_lines = <<>>
    /\ method = <<>>
    /\ file_requested = <<>>
    /\ media_type = NoText
    /\ last_modified_timestamp = 0
    /\ last_modified = NoText
    /\ file_data = <<>>
    /\ sent = <<>>
    /\ pending = <<>>
    /\ log = <<>>
    /\ closed = FALSE
    /\ fsops = <<>>
    /\ faults = <<>>
    /\ prev = <<>>
    /\ orig = <<>>
    /\ repeatOf = <<>>
    /\ tail = <<>>
    /\ threads = <<>>
    /\ accepting = TRUE

\* l.161-165: accept a connection and start handle_client in a thread; the
\* address of the t-th connection is t.
\* found: what the thread's calls of os.path.exists, os.path.getmtime and
\* read have returned; after: how many threads an exception had ended
\* before this one started.
Accept ==
    /\ accepting
    /\ Len(threads) < MaxConns
    /\ \E w \in ThreadWires :
          threads' = Append(threads,
                            [wire |-> w, client_address |-> Len(threads) + 1, pc |-> "run",
                             handling |-> FALSE, escaped |-> FALSE,
                             msg |-> <<>>, line |-> <<>>, found |-> NoFile,
                             sent |-> <<>>, faults |-> <<>>, closed |-> FALSE,
                             after |-> Cardinality({ u \in 1..Len(threads) : threads[u].pc = "dead" })])
    /\ UNCHANGED <<connection, fs, log, logfile, accepting>>

\* l.166-169: KeyboardInterrupt ends the accept loop.
Interrupt ==
    /\ accepting
    /\ accepting' = FALSE
    /\ UNCHANGED <<connection, fs, log, logfile, threads>>

\* A call of the thread raised: in the try block control goes to the 500
\* handler, in the 500 handler the exception leaves it.
Raised(th, call) ==
    IF ~th.handling
    THEN [th EXCEPT !.faults = Append(@, call), !.handling = TRUE, !.pc = "send",
                    !.msg = Handler500(th.client_address).msg,
                    !.line = Handler500(th.client_address).line]
    ELSE [th EXCEPT !.faults = Append(@, call), !.escaped = TRUE, !.pc = "finally"]

\* What the thread is to send and log once the try block has decided.
Decided(th, out) ==
    CASE out.kind = "silent" -> [th EXCEPT !.pc = "finally"]
      [] out.kind = "raise"  -> [th EXCEPT !.handling = TRUE, !.pc = "send",
                                           !.msg = Handler500(th.client_address).msg,
                                           !.line = Handler500(th.client_address).line]
      [] out.kind = "answer" -> [th EXCEPT !.pc = "send", !.msg = out.msg, !.line = out.line]

\* The name the request of a thread resolves to (l.75-78).
ThreadName(w) == Resolve(Split(SplitLines(Decode(w))[1])[2])

\* The thread th after a file-system call; found: what its calls have
\* returned so far; next: the calls made and, last, the one to come.  When
\* the try block decides on what was found without the call to come, the
\* thread has its message and its line; otherwise it goes on to that call.
Found(th, found, next) ==
    LET out == Pipeline(th.wire, found, found, th.client_address)
    IN IF Len(out.calls) < Len(next)
       THEN Decided([th EXCEPT !.found = found], out)
       ELSE [th EXCEPT !.found = found, !.pc = next[Len(next)]]

\* l.60-86, up to the first send or to os.path.exists; recv may raise.
ThreadRun ==
    \E t \in 1..Len(threads) :
        /\ threads[t].pc = "run"
        /\ \/ threads' = [threads EXCEPT ![t] = Found(@, NoFile, <<"exists">>)]
           \/ threads' = [threads EXCEPT ![t] = Raised(@, "recv")]
        /\ UNCHANGED <<connection, fs, log, logfile, accepting>>

\* l.89-105: os.path.exists, then the media type.
ThreadExists ==
    \E t \in 1..Len(threads) :
        /\ threads[t].pc = "exists"
        /\ threads' = [threads EXCEPT ![t] =
                          Found(@, [threads[t].found EXCEPT
                                       !.exists = FileAt(ThreadName(threads[t].wire)).exists],
                                <<"exists", "getmtime">>)]
        /\ UNCHANGED <<connection, fs, log, logfile, accepting>>

\* l.108-119: os.path.getmtime, then the scan of the request lines.
ThreadGetmtime ==
    \E t \in 1..Len(threads) :
        /\ threads[t].pc = "getmtime"
        /\ threads' = [threads EXCEPT ![t] =
                          Found(@, [threads[t].found EXCEPT
                                       !.mtime = FileAt(ThreadName(threads[t].wire)).mtime],
                                <<"exists", "getmtime", "open">>)]
        /\ UNCHANGED <<connection, fs, log, logfile, accepting>>

\* l.121-139: open and read, which may raise, then the method dispatch.
ThreadRead ==
    \E t \in 1..Len(threads) :
        /\ threads[t].pc = "open"
        /\ \/ threads' = [threads EXCEPT ![t] =
                              Found(@, [threads[t].found EXCEPT
                                           !.data = FileAt(ThreadName(threads[t].wire)).data],
                                    <<"exists", "getmtime", "open", "send">>)]
           \/ threads' = [threads EXCEPT ![t] = Raised(@, "open")]
        /\ UNCHANGED <<connection, fs, log, logfile, accepting>>

\* client_socket.sendall: the message is on the thread's socket, or raises.
ThreadSend ==
    \E t \in 1..Len(threads) :
        /\ threads[t].pc = "send"
        /\ \/ threads' = [threads EXCEPT ![t] =
                              [@ EXCEPT !.sent = Append(@, threads[t].msg), !.pc = "log"]]
           \/ threads' = [threads EXCEPT ![t] = Raised(@, "send")]
        /\ UNCHANGED <<connection, fs, log, logfile, accepting>>

\* log_request, l.39: open(LOG_FILE, "a"), or raises.
ThreadOpenLog ==
    \E t \in 1..Len(threads) :
        /\ threads[t].pc = "log"
        /\ \/ threads' = [threads EXCEPT ![t] = [@ EXCEPT !.pc = "write"]]
           \/ threads' = [threads EXCEPT ![t] = Raised(@, "log")]
        /\ UNCHANGED <<connection, fs, log, logfile, accepting>>

\* log_request, l.40 and the end of the with block: the line goes to the
\* file object's buffer and closing writes it, in one write call, at what
\* is then the end of the file (append mode).
ThreadWriteLog ==
    \E t \in 1..Len(threads) :
        /\ threads[t].pc = "write"
        /\ Appended(threads[t].line)
        /\ threads' = [threads EXCEPT ![t] = [@ EXCEPT !.pc = "finally"]]
        /\ UNCHANGED <<connection, fs, accepting>>

\* l.148-149, then the end of the thread: handle_client returns, or an
\* exception that left the 500 handler ends the thread (l.164-165) and
\* nothing else.
ThreadFinally ==
    \E t \in 1..Len(threads) :
        /\ threads[t].pc = "finally"
        /\ threads' = [threads EXCEPT ![t] =
                          [@ EXCEPT !.closed = TRUE,
                                    !.pc = IF threads[t].escaped THEN "dead" ELSE "done"]]
        /\ UNCHANGED <<connection, fs, log, logfile, accepting>>

ServerNext ==
    \/ Accept
    \/ Interrupt
    \/ ThreadRun
    \/ ThreadExists
    \/ ThreadGetmtime
    \/ ThreadRead
    \/ ThreadSend
    \/ ThreadOpenLog
    \/ ThreadWriteLog
    \/ ThreadFinally

ServerSpec == ServerInit /\ [][ServerNext]_vars


\* ============================================================== properties
Done == pc = "done"
NoFault == faults = <<>>
\* The lines this connection appended.
logged == SelectSeq(log, LAMBDA l : l.ip = client_address)

\* recv returned.
Received == \A i \in 1..Len(faults) : faults[i] # "recv"

OtherMethod == RequestTokens[1] \notin {<<"GET">>, <<"HEAD">>}

\* Some line of the request starts with "If-Modified-Since:".
HasConditional ==
    \E i \in 1..Len(SplitLines(Decode(wire))) :
        StartsWith(SplitLines(Decode(wire))[i], IMS)

\* Some line of the request names the header in any letter case.
HasConditionalAnyCase ==
    \E i \in 1..Len(SplitLines(Decode(wire))) :
        \/ StartsWith(SplitLines(Decode(wire))[i], IMS)
        \/ StartsWith(SplitLines(Decode(wire))[i], <<"if-modified-since", ":">>)

BeginsWithDot(name) == name # <<>> /\ name[1] = "."

SupportedExtensions ==
    { <<".", "html">>, <<".", "txt">>, <<".", "jpg">>,
      <<".", "jpeg">>, <<".", "png">>, <<".", "gif">> }

\* What a file-system call of this connection returned.
Asked(call) == \E i \in 1..Len(fsops) : fsops[i].call = call
Result(call) == fsops[CHOOSE i \in 1..Len(fsops) : fsops[i].call = call].result

\* The file the request names.  The log file changes while connections are
\* handled: its time and bytes are those this connection's calls returned.
FileExists == IF AsksForLog THEN TRUE ELSE fs.exists
FileMtime ==
    IF ~AsksForLog THEN fs.mtime
    ELSE IF Asked("getmtime") THEN Result("getmtime") ELSE logfile.mtime
FileData ==
    IF ~AsksForLog THEN fs.data
    ELSE IF Asked("open") THEN Result("open") ELSE logfile.data

\* The request line has three tokens and its target names an existing file
\* that is not hidden and has a supported extension.
Servable ==
    /\ ThreeTokens
    /\ ~BeginsWithDot(Resolve(RequestTarget))
    /\ FileExists
    /\ SplitExt(Resolve(RequestTarget)) \in SupportedExtensions

\* The one response of a connection that sent exactly one.
Answer == sent[1]
Answered(code) == Len(sent) = 1 /\ sent[1].status = ERROR[code]

\* ---- C1
\* C1: a run whose recv returned at least one byte ends with exactly one
\* response sent and exactly one log line appended, whichever send, file
\* read, date parse or log append failed on the way; a run whose recv
\* returned zero bytes ends with none of either.
C1_OneResponseOneLogLine ==
    (Done /\ Received) =>
            IF Len(wire) > 0
            THEN Len(sent) = 1 /\ Len(logged) = 1
            ELSE Len(sent) = 0 /\ Len(logged) = 0

\* ---- C2
\* C2 (as claimed): every run of handle_client closes the client socket: it
\* reaches the end of the handler, and whenever it is there the socket is
\* closed, on the silent return, the terminal statuses, the 200 paths, the
\* 500 path and when the 500 handler itself fails.
C2_SocketAlwaysClosed == ((pc = "recv") ~> closed) /\ [](Done => closed)

\* The handler is in recv or in sendall, where it waits for the client.
AwaitsClient == pc = "recv" \/ ENABLED SendallEnds

\* C2 (amended): every run of handle_client that ends has closed the client
\* socket, on the silent return, the terminal statuses, the 200 paths, the
\* 500 path and when the 500 handler itself fails; and a run ends with the
\* socket closed unless it stays for ever in recv or in a sendall, which a
\* client that neither sends nor closes, or that does not read, keeps from
\* returning, the socket open.
C2_SocketClosedUnlessBlocked ==
    (<>closed \/ <>[](AwaitsClient /\ ~closed)) /\ [](Done => closed)

\* A run in which a call of the try block raised and then a call of the
\* 500 handler raised too, and the socket is closed.
C2_Witness == Done /\ closed /\ Len(faults) = 2

\* ---- C3
\* C3: a GET with a three-token request line and no If-Modified-Since
\* header for an existing, non-hidden file with a supported extension, of
\* any size including zero, is answered 200 OK with a Content-Length field
\* whose value is the file's size and with the file's bytes as the body.
C3_Get200ExactLength ==
    (Done /\ NoFault /\ Servable /\ RequestTokens[1] = <<"GET">> /\ ~HasConditionalAnyCase)
        => /\ Answered(200)
           /\ HasField(Answer, "Content-Length")
           /\ FieldValue(Answer, "Content-Length") = ToDigits(ByteLen(FileData))
           /\ Answer.body = FileData

\* ---- C4
InvalidMethodAnswer ==
    /\ Answered(400)
    /\ Answer.body = <<ERROR[400], ": Unsupported HTTP method.">>
    /\ Len(logged) = 1
    /\ logged[1].file = <<"Invalid Method">>

\* C4 (as claimed): a three-token request whose method is neither GET nor
\* HEAD is answered 400 "Unsupported HTTP method" and logged as "Invalid
\* Method", whatever its target and headers.
C4_OtherMethodAlways400 ==
    (Done /\ NoFault /\ ThreeTokens /\ OtherMethod) => InvalidMethodAnswer

\* C4 (amended): a three-token request whose method is neither GET nor HEAD
\* is answered 400 "Unsupported HTTP method" and logged as "Invalid Method"
\* exactly when it reaches the method dispatch: its resolved name is not
\* hidden, exists, has a supported extension and the If-Modified-Since scan
\* neither raises nor answers 304 (in a run where no send, file read or log
\* append raises).
C4_OtherMethod400AtDispatch ==
    (Done /\ NoFault /\ ThreeTokens /\ OtherMethod)
        => (InvalidMethodAnswer
              <=> (Servable /\ ScanHeaders(SplitLines(Decode(wire)), 1, FileMtime) = "pass"))

\* A DELETE carrying an If-Modified-Since older than the file got the 400.
C4_Witness ==
    /\ Done /\ NoFault /\ Servable /\ HasConditional
    /\ RequestTokens[1] = <<"DELETE">>
    /\ InvalidMethodAnswer

\* ---- C5
\* C5: a non-empty request whose first line does not split into exactly
\* three tokens (zero, one, two, four or more) is answered 400 Bad Request
\* and nothing else, logged once, and the connection is closed.
C5_NotThreeTokens400 ==
    (Done /\ NoFault /\ Decode(wire) # <<>> /\ ~ThreeTokens)
        => Answered(400) /\ Len(logged) = 1 /\ closed

\* ---- C6
\* C6: after a GET answered 200 with Last-Modified L, a GET or HEAD for the
\* same unchanged file with "If-Modified-Since: L" is answered 304 with no
\* body, for every modification time, also one with a sub-second part.
\* (The log file is no unchanged file: the first GET's own line changes it.)
C6_ConditionalRoundTrip ==
    (Done /\ NoFault /\ prev # <<>> /\ ~AsksForLog) => Answered(304) /\ Answer.body = <<>>

\* ---- C7
\* C7: a three-token request is answered 403 exactly when the resolved name
\* begins with "."; the 403 is chosen before any file-system call, so a
\* hidden name that does not exist gets 403 and not 404; a name with "."
\* only at the start of a later segment is never answered 403.
C7_HiddenIffLeadingDot ==
    (Done /\ NoFault /\ ThreeTokens)
        => /\ Len(sent) = 1
           /\ (Answer.status = ERROR[403]) <=> BeginsWithDot(file_requested)
           /\ (Answer.status = ERROR[403]) => fsops = <<>>

\* A hidden name that does not exist was answered 403 with no file-system
\* call made.
C7_Witness ==
    /\ Done /\ NoFault /\ ThreeTokens /\ ~FileExists
    /\ Answered(403) /\ fsops = <<>>
    /\ BeginsWithDot(file_requested)

\* ---- C8
\* C8: a HEAD request that differs only in its method from a GET answered
\* 200 gets the same status line and the fields Content-Type, Content-Length
\* (the file's size), Last-Modified and Connection, and no body byte.
C8_HeadLikeGet ==
    (Done /\ NoFault /\ Servable /\ RequestTokens[1] = <<"HEAD">>
          /\ ScanHeaders(SplitLines(Decode(wire)), 1, FileMtime) = "pass")
        => /\ Answered(200)
           /\ Answer.fields =
                << Field("Date", <<"now">>),
                   Field("Server", <<"COMP2322Project_PythonServer/1.0">>),
                   Field("Content-Type", MEDIA_TYPES[SplitExt(file_requested)]),
                   Field("Content-Length", ToDigits(ByteLen(FileData))),
                   Field("Last-Modified", FormatDate(FileMtime)),
                   Field("Connection", <<"close">>) >>
           /\ Answer.body = <<>>

\* ---- C9
Resolved == pc = "hidden"      \* ResolvePath has just set file_requested

\* C9 (as claimed): the resolved name is the target with exactly one
\* leading "/" removed, or index.html when that leaves nothing.
C9_StripOneSlash ==
    Resolved =>
        file_requested = (IF RequestTarget = <<"/">> THEN <<"index", ".", "html">>
                          ELSE IF RequestTarget[1] = "/" THEN Tail(RequestTarget)
                          ELSE RequestTarget)

\* C9 (amended): the resolved name is the target with every leading "/"
\* removed, or index.html when that leaves nothing; "/" resolves to
\* index.html, and so does a target made only of "/".
C9_StripAllSlashes ==
    Resolved =>
        \E k \in 0..Len(RequestTarget) :
            /\ \A i \in 1..k : RequestTarget[i] = "/"
            /\ k < Len(RequestTarget) => RequestTarget[k + 1] # "/"
            /\ file_requested = (IF k = Len(RequestTarget) THEN <<"index", ".", "html">>
                                 ELSE SubSeq(RequestTarget, k + 1, Len(RequestTarget)))

\* A target with two leading "/" and a name after them was resolved.
C9_Witness ==
    /\ Resolved
    /\ Len(RequestTarget) > 2
    /\ RequestTarget[1] = "/" /\ RequestTarget[2] = "/"
    /\ RequestTarget[3] # "/"

\* ---- C10
\* The last path segment of a name, and its extension: the text from its
\* last "." provided something other than "." comes before that "." in the
\* segment.
LastSegment(name) ==
    LET seps == { i \in 1..Len(name) : name[i] = "/" }
    IN IF seps = {} THEN name
       ELSE SubSeq(name, (CHOOSE i \in seps : \A j \in seps : j <= i) + 1, Len(name))

SegmentExtension(name) ==
    LET seg == LastSegment(name)
        dots == { i \in 1..Len(seg) : seg[i] = "." /\ \E j \in 1..(i - 1) : seg[j] # "." }
    IN IF dots = {} THEN <<>>
       ELSE SubSeq(seg, CHOOSE i \in dots : \A j \in dots : j <= i, Len(seg))

\* The text of a name from its last ".", empty if it has none.
FromLastDot(name) ==
    LET dots == { i \in 1..Len(name) : name[i] = "." }
    IN IF dots = {} THEN <<>>
       ELSE SubSeq(name, CHOOSE i \in dots : \A j \in dots : j <= i, Len(name))

\* C10 (as claimed): a three-token request for an existing, non-hidden name
\* is answered 415 whenever the text of the name from its last "." is
\* missing or none of the six extensions, and never when it is one of them.
C10_415ByLastDot ==
    (Done /\ NoFault /\ ThreeTokens /\ FileExists /\ ~BeginsWithDot(file_requested))
        => /\ Len(sent) = 1
           /\ (Answer.status = ERROR[415])
                <=> (FromLastDot(file_requested) \notin SupportedExtensions)

\* C10 (amended): a three-token request for an existing, non-hidden name
\* is answered 415 whenever the extension of the name's last path segment
\* (from the segment's last ".", leading "." of the segment not counting)
\* is missing or none of the six, and never when it is one of them (in a
\* run where no send, file read or log append raises).
C10_415BySegmentExtension ==
    (Done /\ NoFault /\ ThreeTokens /\ FileExists /\ ~BeginsWithDot(file_requested))
        => /\ Len(sent) = 1
           /\ (Answer.status = ERROR[415])
                <=> (SegmentExtension(file_requested) \notin SupportedExtensions)

\* An existing name whose last segment is ".txt" was answered 415.
C10_Witness ==
    /\ Done /\ NoFault /\ ThreeTokens /\ FileExists
    /\ Answered(415)
    /\ FromLastDot(file_requested) \in SupportedExtensions

\* ---- C11
OptionalFields == <<"Content-Type", "Content-Length", "Last-Modified">>

\* The field names of a message, in the order they were written.
FieldNames(msg) == [j \in 1..Len(msg.fields) |-> msg.fields[j].name]

\* Date, Server, any of the three optional fields in their order, Connection.
HeaderShapes ==
    { <<"Date", "Server">>
        \o SelectSeq(OptionalFields, LAMBDA n : n \in S)
        \o <<"Connection">> : S \in SUBSET {"Content-Type", "Content-Length", "Last-Modified"} }

\* C11: every message put on the socket has one of the seven status lines,
\* then Date, Server, only those of Content-Type, Content-Length and
\* Last-Modified that its caller supplied (the 200 alone supplies any, with
\* the media type, the size and the file's date as values), and last
\* "Connection: close"; no message carries another Connection value.
C11_HeaderShape ==
    \A i \in 1..Len(sent) :
        LET msg == sent[i] IN
        /\ msg.status \in { ERROR[c] : c \in DOMAIN ERROR }
        /\ FieldNames(msg) \in HeaderShapes
        /\ \A j \in 1..Len(msg.fields) :
              msg.fields[j].name = "Connection" => msg.fields[j].value = <<"close">>
        /\ msg.status # ERROR[200] => Len(msg.fields) = 3
        /\ msg.status = ERROR[200] =>
              /\ HasField(msg, "Content-Type")
              /\ FieldValue(msg, "Content-Type") = media_type
              /\ HasField(msg, "Last-Modified")
              /\ FieldValue(msg, "Last-Modified") = last_modified
              /\ HasField(msg, "Content-Length")
                    => FieldValue(msg, "Content-Length") = ToDigits(ByteLen(file_data))

\* A connection on which a 200 with all three optional fields and then a
\* 500 with none were sent.
C11_Witness ==
    /\ Done /\ Len(sent) = 2
    /\ sent[1].status = ERROR[200] /\ Len(sent[1].fields) = 6
    /\ sent[2].status = ERROR[500]

\* ---- C12
Sentinels == { <<"BAD REQUEST">>, <<"Malformed HTTP request">>,
               <<"Invalid Method">>, <<"Unknown Error">> }

ResourceStatuses == { ERROR[200], ERROR[304], ERROR[403], ERROR[404], ERROR[415] }

\* C12 (as claimed): the log label is "BAD REQUEST" for a malformed request
\* line, "Invalid Method" for an unsupported method and "Unknown Error" on
\* the 500 path; with 200, 304, 403, 404 and 415 it is the resolved name;
\* a sentinel is used only when no resource name was resolved.
C12_SentinelLabels ==
    (Done /\ NoFault) =>
        \A i \in 1..Len(logged) :
            LET l == logged[i] IN
            /\ (Decode(wire) # <<>> /\ ~ThreeTokens) => l.file = <<"BAD REQUEST">>
            /\ (l.status = ERROR[400] /\ ThreeTokens) => l.file = <<"Invalid Method">>
            /\ l.status = ERROR[500] => l.file = <<"Unknown Error">>
            /\ l.status \in ResourceStatuses => l.file = file_requested
            /\ l.file \in Sentinels => file_requested = <<>>

\* C12 (amended): the log label is "Malformed HTTP request" with the 400
\* of the parse step, which a first line of fewer than three tokens gets,
\* "Invalid Method" with the 400 of the method dispatch and "Unknown
\* Error" with every 500; with 200, 304, 403, 404 and 415 it is the
\* resolved name, which is never empty; every line carries the status of
\* the message sent with it.
C12_LabelsByOutcome ==
    /\ \A i \in 1..Len(logged) :
          LET l == logged[i]
              msg == sent[Len(sent)]
          IN /\ sent # <<>> /\ l.status = msg.status
             /\ (l.status = ERROR[400] /\ msg.body = <<ERROR[400]>>)
                   => l.file = <<"Malformed HTTP request">>
             /\ (l.status = ERROR[400] /\ msg.body # <<ERROR[400]>>)
                   => /\ l.file = <<"Invalid Method">>
                      /\ msg.body = <<ERROR[400], ": Unsupported HTTP method.">>
             /\ l.status = ERROR[500] => l.file = <<"Unknown Error">>
             /\ l.status \in ResourceStatuses
                   => l.file = file_requested /\ file_requested # <<>>
    /\ (Done /\ NoFault /\ Decode(wire) # <<>> /\ Len(RequestTokens) < 3)
          => Len(logged) = 1 /\ logged[1].file = <<"Malformed HTTP request">>

\* The date of an existing file could not be compared, after its name was
\* resolved, and the line written says "Unknown Error".
C12_Witness ==
    /\ Done /\ NoFault /\ Servable
    /\ file_requested # <<>>
    /\ Len(logged) = 1
    /\ logged[1].file = <<"Unknown Error">>

\* ---- C16
Lines == SplitLines(Decode(wire))

\* Line i names the header, and the value after the name.
IsConditional(i) == StartsWith(Lines[i], IMS)
ConditionalValue(i) == Strip(AfterColon(Lines[i]))

\* Line i names the header and its date is not older than the file.
NotModifiedSince(i) ==
    /\ IsConditional(i)
    /\ ~ParseFails(ConditionalValue(i))
    /\ ParseDate(ConditionalValue(i), zone) >= FileMtime

\* A 304 with no body and none of the three optional fields.
NotModifiedAnswer ==
    /\ Answered(304)
    /\ Answer.body = <<>>
    /\ FieldNames(Answer) = <<"Date", "Server", "Connection">>

GetOrHead == RequestTokens[1] \in {<<"GET">>, <<"HEAD">>}

\* C16 (as claimed): a GET or HEAD that reaches the conditional step is
\* answered 304, with no body and no optional field, exactly when some
\* request line starts with "If-Modified-Since:" and its date is not older
\* than the file; with no such line it is answered 200.
C16_304IffSomeLineNotOlder ==
    (Done /\ NoFault /\ Servable /\ GetOrHead)
        => /\ NotModifiedAnswer <=> \E i \in 1..Len(Lines) : NotModifiedSince(i)
           /\ ~HasConditional => Answered(200)

\* C16 (amended): a GET or HEAD that reaches the conditional step is
\* answered 304, with no body and no optional field, exactly when the scan
\* of the request lines in order meets a line that starts with
\* "If-Modified-Since:" and whose date is not older than the file before
\* it meets one whose value is no date; with no such line at all it is
\* answered 200 (in a run where no send, file read or log append raises).
C16_304IffFirstDecidingLineNotOlder ==
    (Done /\ NoFault /\ Servable /\ GetOrHead)
        => /\ NotModifiedAnswer
                <=> \E i \in 1..Len(Lines) :
                       /\ NotModifiedSince(i)
                       /\ \A j \in 1..(i - 1) :
                             IsConditional(j) => ~ParseFails(ConditionalValue(j))
           /\ ~HasConditional => Answered(200)

\* A request with an old date and then one equal to the file's whole
\* second was answered 304.
C16_Witness ==
    /\ Done /\ NoFault /\ Servable /\ GetOrHead
    /\ NotModifiedAnswer
    /\ \E i, j \in 1..Len(Lines) :
          /\ i < j
          /\ IsConditional(i) /\ ~NotModifiedSince(i)
          /\ NotModifiedSince(j) /\ ParseDate(ConditionalValue(j), zone) = FileMtime

\* ---- C17
\* The scan meets a value that is no date: every If-Modified-Since line
\* before it has a date older than the file.
ScansUnparseable ==
    \E i \in 1..Len(Lines) :
        /\ IsConditional(i)
        /\ ParseFails(ConditionalValue(i))
        /\ \A j \in 1..(i - 1) : IsConditional(j) => ~NotModifiedSince(j)

\* C17: a request that reaches the conditional step and whose scan meets
\* an If-Modified-Since value that is no HTTP-date is answered 500, logged
\* once as "Unknown Error", and never answered 200 (in a run where no
\* send or log append raises).
C17_UnparseableDate500 ==
    (Done /\ NoFault /\ Servable /\ ScansUnparseable)
        => /\ Answered(500)
           /\ logged = << LogLine(client_address, <<"Unknown Error">>, ERROR[500]) >>
           /\ \A i \in 1..Len(sent) : sent[i].status # ERROR[200]

\* A GET whose only If-Modified-Since value is no date got the 500.
C17_Witness ==
    /\ Done /\ NoFault /\ Servable /\ ScansUnparseable
    /\ RequestTokens[1] = <<"GET">>
    /\ Answered(500)
    /\ Calls = <<"exists", "getmtime">>

\* ---- C18
\* C18: in every run, a step that appends a line to the log is the log
\* step of a connection whose send has completed before, in an earlier
\* step, and the status phrase of the line is the status of the message
\* that send put on the socket; a line is never appended when the send
\* before it raised.  This holds for the connection being handled and for
\* an earlier connection that logs while a later one is handled.
C18_LogAfterSend ==
    [][ log' # log =>
          /\ Len(log') = Len(log) + 1
          /\ SubSeq(log', 1, Len(log)) = log
          /\ IF log'[Len(log')].ip = client_address
             THEN /\ pc = "log"
                  /\ sent # <<>>
                  /\ sent' = sent
                  /\ log'[Len(log')].status = sent[Len(sent)].status
             ELSE \E k \in 1..Len(tail) :
                     /\ tail[k].ip = log'[Len(log')].ip
                     /\ tail[k].pc = "log"
                     /\ tail[k].sent # <<>>
                     /\ log'[Len(log')].status = tail[k].sent[Len(tail[k].sent)].status ]_vars

\* The log append after the 200 raised; the 500 handler sent its message
\* and then wrote the one line of the connection, with the status 500.
C18_Witness ==
    /\ Done /\ faults = <<"log">>
    /\ Len(sent) = 2 /\ Len(logged) = 1
    /\ sent[1].status = ERROR[200]
    /\ logged[1].status = sent[2].status

\* ---- C19
\* C19: a run ends with no message sent and no log line only when recv
\* returned zero bytes; a read of one or more bytes, also of bytes that
\* the lenient decode discards, is answered and logged (in a run where no
\* send or log append raises).
C19_SilentOnlyOnZeroBytes ==
    (Done /\ NoFault) => ((Len(sent) = 0 /\ Len(logged) = 0) => Len(wire) = 0)

\* ---- C20
\* The file-system calls made when the pipeline ends at a status.
CallsUpTo(status) ==
    CASE status \in {ERROR[400], ERROR[403]} -> <<>>
      [] status \in {ERROR[404], ERROR[415]} -> <<"exists">>
      [] status = ERROR[304] -> <<"exists", "getmtime">>

\* The earliest status a request qualifies for, in the order 400 for a
\* first line that is not three tokens, 403, 404, 415, 304; "later" when
\* it qualifies for none.
EarliestStatus ==
    IF ~ThreeTokens THEN ERROR[400]
    ELSE IF BeginsWithDot(Resolve(RequestTarget)) THEN ERROR[403]
    ELSE IF ~FileExists THEN ERROR[404]
    ELSE IF SegmentExtension(Resolve(RequestTarget)) \notin SupportedExtensions THEN ERROR[415]
    ELSE IF \E i \in 1..Len(Lines) :
               /\ NotModifiedSince(i)
               /\ \A j \in 1..(i - 1) : IsConditional(j) => ~ParseFails(ConditionalValue(j))
         THEN ERROR[304]
    ELSE "later"

\* C20: the stages run in the order parse, hidden check, existence check,
\* media-type check, conditional evaluation, file read, method dispatch;
\* the first stage that chooses a status ends the pipeline, with no
\* file-system call of a later stage and no second send; so a request gets
\* the earliest status it qualifies for in the order 400 (malformed), 403,
\* 404, 415, 304 (in a run where no send, file read or log append raises).
C20_EarliestStatusEndsPipeline ==
    (Done /\ NoFault /\ Decode(wire) # <<>>)
        => /\ Len(sent) = 1
           /\ IF EarliestStatus = "later"
              THEN /\ Answer.status \in {ERROR[200], ERROR[400], ERROR[500]}
                   /\ SubSeq(Calls, 1, 2) = <<"exists", "getmtime">>
              ELSE /\ Answer.status = EarliestStatus
                   /\ Calls = CallsUpTo(EarliestStatus)

\* ---- C14
\* A message without its Date field.
ApartFromDate(msg) ==
    [status |-> msg.status,
     fields |-> SelectSeq(msg.fields, LAMBDA f : f.name # "Date"),
     body   |-> msg.body]

\* C14 (as claimed): a GET sent again with the same bytes, nobody but the
\* server touching the files, gets the same status, the same header fields
\* apart from Date and the same body as the first time, whatever was
\* handled in between (in runs where no send, file read or log append
\* raises).
C14_RepeatedGetSameAnswer ==
    (Done /\ NoFault /\ repeatOf # <<>> /\ repeatOf[1].faults = <<>>)
        => /\ Len(sent) = Len(repeatOf[1].sent)
           /\ \A i \in 1..Len(sent) :
                 ApartFromDate(sent[i]) = ApartFromDate(repeatOf[1].sent[i])

\* The same of the requests that do not name the log file, however many
\* lines the server has added to it in between.
RepeatedGetSameAnswerApartFromLog ==
    (Done /\ NoFault /\ repeatOf # <<>> /\ repeatOf[1].faults = <<>>
          /\ Location(file_requested) # "log")
        => /\ Len(sent) = Len(repeatOf[1].sent)
           /\ \A i \in 1..Len(sent) :
                 ApartFromDate(sent[i]) = ApartFromDate(repeatOf[1].sent[i])

\* A GET answered 200 with a body was repeated after a conditional request
\* for the same file had been handled, and was answered 200 again.
RepeatedAfterConditional ==
    /\ Done /\ NoFault /\ repeatOf # <<>> /\ orig # <<>>
    /\ repeatOf[1].faults = <<>>
    /\ Location(file_requested) # "log"
    /\ Answered(200) /\ Answer.body # <<>>
    /\ Len(log) = 3 /\ log[1].ip = 2

\* ---- C13
\* The try block's decision, taken in one piece, is what the steps of the
\* handler arrive at when no call raises.
PipelineAgreesWithSteps ==
    (Done /\ NoFault /\ ~AsksForLog) =>
        LET raw == Pipeline(wire, fs, logfile, client_address)
            out == IF raw.kind = "raise" THEN Handler500(client_address) ELSE raw
        IN /\ Calls = raw.calls
           /\ IF out.kind = "silent"
              THEN sent = <<>> /\ logged = <<>>
              ELSE sent = <<out.msg>> /\ logged = <<out.line>>

ThreadsEnded ==
    /\ threads # <<>>
    /\ \A t \in 1..Len(threads) : threads[t].pc \in {"done", "dead"}

NoThreadFault == \A t \in 1..Len(threads) : threads[t].faults = <<>>

\* The lines of the log file, and those that begin with the address of the
\* t-th connection.
LogLines == SplitLines(logfile.data)

LinesOf(t) ==
    { i \in 1..Len(LogLines) :
        /\ Len(LogLines[i]) > Len(ToDigits(t))
        /\ SubSeq(LogLines[i], 1, Len(ToDigits(t))) = ToDigits(t)
        /\ LogLines[i][Len(ToDigits(t)) + 1] = " - " }

\* A whole line: address, time, label and status, in this order.
CompleteLine(l) ==
    \E t \in 1..Len(threads) :
        \E c \in DOMAIN ERROR :
            /\ Len(l) >= Len(ToDigits(t)) + 6
            /\ \E request_time \in Stamps :
                  SubSeq(l, 1, Len(ToDigits(t)) + 3)
                      = ToDigits(t) \o <<" - ", request_time, " - ">>
            /\ SubSeq(l, Len(l) - 1, Len(l)) = <<" - ", ERROR[c]>>
            /\ \A i \in (Len(ToDigits(t)) + 4)..(Len(l) - 2) : l[i] \notin ({" - "} \cup Stamps)

\* C13: when the threads of several connections have run concurrently,
\* each appending through log_request with no lock, and no call raised,
\* the log file holds exactly one complete line for each connection that
\* received at least one byte, in some order, and none for the others; no
\* line holds text of another line and no line is lost.
C13_OneLinePerConnection ==
    (ThreadsEnded /\ NoThreadFault) =>
        /\ logfile.data # <<>> => logfile.data[Len(logfile.data)] = "\n"
        /\ \A i \in 1..Len(LogLines) : CompleteLine(LogLines[i])
        /\ \A t \in 1..Len(threads) :
              Cardinality(LinesOf(t)) = IF Len(threads[t].wire) > 0 THEN 1 ELSE 0
        /\ Len(LogLines) = Cardinality({ t \in 1..Len(threads) : Len(threads[t].wire) > 0 })

\* ---- C15
\* The thread of the t-th connection has sent and logged what its request
\* gets when handled alone, and closed its socket.
HandledAsAlone(t) ==
    LET th == threads[t]
        out == IF Pipeline(th.wire, fs, th.found, t).kind = "raise"
               THEN Handler500(t)
               ELSE Pipeline(th.wire, fs, th.found, t)
    IN /\ th.closed
       /\ IF out.kind = "silent"
          THEN th.sent = <<>> /\ LinesOf(t) = {}
          ELSE /\ th.sent = <<out.msg>>
               /\ Cardinality(LinesOf(t)) = 1
               /\ \A i \in LinesOf(t) :
                     \E request_time \in Stamps :
                        LogLines[i] \o <<"\n">> = LogText(out.line, request_time)

\* What the request of the t-th connection is answered with and logged as
\* when none of its calls raises.
OwnOutcome(t) ==
    IF Pipeline(threads[t].wire, fs, threads[t].found, t).kind = "raise"
    THEN Handler500(t)
    ELSE Pipeline(threads[t].wire, fs, threads[t].found, t)

\* The thread of the t-th connection served the log file.
ServedLog(t) ==
    /\ threads[t].sent # <<>>
    /\ threads[t].line.file = LOG_FILE
    /\ threads[t].line.status = ERROR[200]

\* Nothing in the response of the t-th connection comes from a call that
\* raised in another connection: when it served the log file, every line
\* of the body is the line some connection's request is logged as when
\* none of its calls raises.
UntouchedByFailures(t) ==
    ServedLog(t) =>
        \A l \in { SplitLines(threads[t].sent[1].body)[i] :
                       i \in 1..Len(SplitLines(threads[t].sent[1].body)) } :
            \E u \in 1..Len(threads) :
                /\ OwnOutcome(u).kind = "answer"
                /\ \E request_time \in Stamps :
                      l \o <<"\n">> = LogText(OwnOutcome(u).line, request_time)

\* C15: a call that raises in a connection's thread, in the try block or
\* in the 500 handler, never ends the accept loop (only the interrupt
\* does), so later connections are accepted and handed to threads; and
\* every connection whose own calls did not raise gets the response and
\* the log line its request gets when handled alone, with nothing in them
\* that a call raising in another connection produced.
C15_FailureStaysInItsThread ==
    /\ [][ (accepting /\ ~accepting') => threads' = threads ]_vars
    /\ [](\A t \in 1..Len(threads) :
            (threads[t].pc = "done" /\ threads[t].faults = <<>>)
                => HandledAsAlone(t) /\ UntouchedByFailures(t))

\* The same with the log file taken as the thread found it: the accept
\* loop ends only by the interrupt, and every connection whose own calls
\* did not raise gets the response and the log line its request gets when
\* handled alone on the files as its thread found them.
FailureStaysInItsThreadApartFromLog ==
    /\ [][ (accepting /\ ~accepting') => threads' = threads ]_vars
    /\ [](\A t \in 1..Len(threads) :
            (threads[t].pc = "done" /\ threads[t].faults = <<>>) => HandledAsAlone(t))

\* An exception left the 500 handler of one connection; a connection
\* accepted after that thread had ended was answered and logged, and the
\* accept loop is still running.
AcceptedAfterFailure ==
    /\ accepting
    /\ \E u, t \in 1..Len(threads) :
          /\ threads[u].pc = "dead" /\ Len(threads[u].faults) = 2
          /\ threads[t].after >= 1
          /\ threads[t].pc = "done" /\ threads[t].faults = <<>>
          /\ threads[t].sent # <<>>
          /\ LinesOf(t) # {}

====
